---------------------------- MODULE Spec2Model ----------------------------
(***************************************************************************)
(* job-seek: the reconciliation model of a job board (data/model.py) and   *)
(* the pages worker that scrapes boards and persists them                  *)
(* (services/worker/pages_worker.py), with the external writers of a board *)
(* document (ui/page_renderer.py, scripts/reset_pages.py).                 *)
(*                                                                         *)
(* Time is counted in whole units of 6 hours, so that the 6 hour flap      *)
(* window is 1 unit.  A Python None is the value None (-1); timestamps     *)
(* and counts are naturals.                                                *)
(***************************************************************************)
EXTENDS Integers, Sequences, FiniteSets, TLC

VARIABLES
    jb,         \* Spec: the JobBoard object under apply_scrape / record_attempt
    call,       \* Spec: the arguments of the last call made on jb
    disk,       \* WorkerSpec: path -> the board document as last fully written
    fstate,     \* WorkerSpec: path -> "complete" | "truncated" | "invalid" (bytes on disk)
    heap,       \* WorkerSpec: object id -> JobBoard object of the server process
    cache,      \* WorkerSpec: path -> object id held by from_file's ttl_cache
    wpc,        \* WorkerSpec: position of run_pages_worker's loop
    tickNow,    \* WorkerSpec: `now` of the current tick
    tasks,      \* WorkerSpec: the tasks of the event loop, in creation order
    sem,        \* WorkerSpec: free slots of asyncio.Semaphore(cfg.concurrency)
    clock,      \* WorkerSpec: wall clock
    ui,         \* WorkerSpec: the UI thread's _refresh call
    ext,        \* WorkerSpec: the reset utility (another process)
    seen,       \* WorkerSpec: what the last read of a board file found in it
    fn,         \* function specs: the function last called
    arg,        \* function specs: its arguments
    ret,        \* function specs: what it returned
    posting,    \* NormSpec: a Job object under construction and mark
    recorded,   \* CapSpec: every attempt handed to jb so far, oldest first
    scr,        \* ScrapeSpec: the running call of scrape_jobs_with_meta
    browser     \* ScrapeSpec: render_client._browser, shared by every call

boardVars  == <<jb, call>>
funVars    == <<fn, arg, ret, posting, recorded, scr, browser>>
workerVars == <<disk, fstate, heap, cache, wpc, tickNow, tasks, sem,
                clock, ui, ext, seen, funVars>>
vars == <<jb, call, disk, fstate, heap, cache, wpc, tickNow, tasks, sem,
          clock, ui, ext, seen, fn, arg, ret, posting, recorded, scr, browser>>

None == 0 - 1

(***************************************************************************)
(* Bounds of the model.                                                    *)
(***************************************************************************)
MaxCalls == 3       \* apply_scrape calls made on one board
MaxTime  == 2       \* largest scraped_at handed to a call


Links  == {"u1", "u2"}
Titles == {"Dev", "qa"}

\* str.lower() on the titles of the model, and the rank of a lowercased title
\* in Python's string order.
Lower(t)     == CASE t = "Dev" -> "dev" [] t = "qa" -> "qa"
StrRank(str) == CASE str = "dev" -> 1 [] str = "qa" -> 2

(***************************************************************************)
(* Generic helpers.                                                        *)
(***************************************************************************)
Last(s)  == s[Len(s)]
Front(s) == SubSeq(s, 1, Len(s) - 1)
Range(s) == {s[i] : i \in 1..Len(s)}

\* Python's sorted(seq, key=...) / list.sort(key=...): a stable sort.  keys[i]
\* is the integer key of seq[i]; an element's place is the number of elements
\* that sort before it (smaller key, or equal key and earlier in seq).
StableSort(seq, keys) ==
    LET n == Len(seq)
        pos(i) == Cardinality({j \in 1..n : (keys[j] < keys[i]) \/
                                             (keys[j] = keys[i] /\ j < i)}) + 1
    IN  [p \in 1..n |-> seq[CHOOSE i \in 1..n : pos(i) = p]]

RECURSIVE FoldLeft(_, _, _)
\* for x in seq: acc = Op(acc, x)
FoldLeft(Op(_, _), acc, seq) ==
    IF seq = <<>> THEN acc ELSE FoldLeft(Op, Op(acc, seq[1]), Tail(seq))

(***************************************************************************)
(* Status and history normalisation (data/model.py 19-61).                 *)
(***************************************************************************)
FlapWindow == 1     \* _FLAP_WINDOW = timedelta(hours=6), in units of 6 hours

Status(st, at) == [status |-> st, at |-> at]

\* NormalizeStep with the flap rule skipping the returning 'active' without
\* popping the 'inactive' before it.
NormalizeStep_NoPop(out, st) ==
    IF out # <<>>
    THEN IF Last(out).status = st.status
         THEN out
         ELSE IF /\ st.status = "active"
                 /\ Last(out).status = "inactive"
                 /\ st.at - Last(out).at <= FlapWindow
              THEN out
              ELSE Append(out, st)
    ELSE Append(out, st)

\* NormalizeStep with the flap rule popping the 'inactive' and then appending
\* the returning 'active'.
NormalizeStep_PopAppend(out, st) ==
    IF out # <<>>
    THEN IF Last(out).status = st.status
         THEN out
         ELSE IF /\ st.status = "active"
                 /\ Last(out).status = "inactive"
                 /\ st.at - Last(out).at <= FlapWindow
              THEN Append(Front(out), st)
              ELSE Append(out, st)
    ELSE Append(out, st)

\* One iteration of the for loop of _normalize_history on the accumulator out.
NormalizeStep(out, st) ==
    IF out # <<>>
    THEN IF Last(out).status = st.status
         THEN out                                       \* 1) drop duplicate
         ELSE IF /\ st.status = "active"
                 /\ Last(out).status = "inactive"
                 /\ st.at - Last(out).at <= FlapWindow
              THEN Front(out)                           \* 2) pop, skip st
              ELSE Append(out, st)
    ELSE Append(out, st)

\* _normalize_history without the sort
_normalize_history_NoSort(history) ==
    IF history = <<>> THEN <<>>
    ELSE FoldLeft(NormalizeStep, <<>>, history)

_normalize_history(history) ==
    IF history = <<>> THEN <<>>
    ELSE LET hist == StableSort(history, [i \in 1..Len(history) |-> history[i].at])
         IN  FoldLeft(NormalizeStep, <<>>, hist)

(***************************************************************************)
(* Job (data/model.py 64-107).                                             *)
(***************************************************************************)
Job(title, link, history) ==
    [title |-> title, link |-> link, history |-> _normalize_history(history)]

is_active(job) ==
    job.history # <<>> /\ Last(job.history).status = "active"

\* mark without the early return on an unchanged status.
mark_NoGuard(job, new_status, ts) ==
    [job EXCEPT !.history = Append(job.history, Status(new_status, ts))]

mark(job, new_status, ts) ==
    IF job.history # <<>> /\ Last(job.history).status = new_status
    THEN job
    ELSE [job EXCEPT !.history =
              _normalize_history(Append(job.history, Status(new_status, ts)))]

(***************************************************************************)
(* Attempts, policy, health (data/model.py 111-159).                       *)
(***************************************************************************)
NoError == "None"   \* error_kind = None

ScrapeAttempt(at, ok, count, error_kind) ==
    [at |-> at, ok |-> ok, count |-> count, duration_ms |-> None,
     renderer_used |-> None, error_kind |-> error_kind]

ScrapePolicy(tfd, thr, win, minb, two, manual) ==
    [time_flag_duration_s |-> tfd, attempt_threshold_for_down |-> thr,
     attempt_window_size |-> win, min_baseline_to_flag |-> minb,
     require_two_successful_zeros_to_deactivate |-> two,
     manual_override |-> manual]

ScrapeHealth ==
    [status |-> "normal", reason |-> "NONE", first_zero_at |-> None,
     consecutive_zero_attempts |-> 0, flagged_until |-> None,
     last_nonzero_at |-> None, last_nonzero_count |-> None,
     baseline_nonzero_count |-> None, last_success_at |-> None,
     last_success_count |-> None]

_median(ints) ==
    IF ints = <<>> THEN None
    ELSE LET s   == StableSort(ints, ints)
             n   == Len(s)
             mid == n \div 2
         IN  IF n % 2 = 1 THEN s[mid + 1]
             ELSE (s[mid] + s[mid + 1]) \div 2

Reversed(s) == [i \in 1..Len(s) |-> s[Len(s) + 1 - i]]

(***************************************************************************)
(* JobBoard (data/model.py 163-179): a fresh board.                        *)
(***************************************************************************)
JobBoard(policy) ==
    [attempts |-> <<>>, scrape_health |-> ScrapeHealth, policy |-> policy,
     last_scraped |-> None, last_success_at |-> None, next_scrape_at |-> None,
     content |-> <<>>]

AttemptsCap == 50   \* len(self.attempts) > 50

\* for the health reads of Python: (x or 0)
OrZero(x) == IF x = None THEN 0 ELSE x

\* the status never reaches "down"
status_bump_NoDown(prior_nonzero_exists, within_window, czero, threshold) ==
    IF prior_nonzero_exists THEN "suspect"
    ELSE IF czero >= 2 THEN "suspect" ELSE "normal"

\* without a baseline the status is suspect on the second zero only
status_bump_OnSecond(prior_nonzero_exists, within_window, czero, threshold) ==
    IF prior_nonzero_exists
    THEN IF within_window /\ czero >= threshold THEN "down" ELSE "suspect"
    ELSE IF czero = 2 THEN "suspect" ELSE "normal"

\* without a baseline the status stays normal whatever the zero run
status_bump_NoStreak(prior_nonzero_exists, within_window, czero, threshold) ==
    IF prior_nonzero_exists
    THEN IF within_window /\ czero >= threshold THEN "down" ELSE "suspect"
    ELSE "normal"

\* record_attempt, "Status bumping logic"
status_bump(prior_nonzero_exists, within_window, czero, threshold) ==
    IF prior_nonzero_exists
    THEN IF within_window /\ czero >= threshold THEN "down" ELSE "suspect"
    ELSE IF czero >= 2 THEN "suspect" ELSE "normal"

\* a success that leaves the time flag standing
success_reset_KeepFlag(health) ==
    [health EXCEPT !.consecutive_zero_attempts = 0,
                   !.first_zero_at = None,
                   !.status = "normal",
                   !.reason = "NONE"]

\* record_attempt, success path: the counters and flags cleared
success_reset(health) ==
    [health EXCEPT !.consecutive_zero_attempts = 0,
                   !.first_zero_at = None,
                   !.flagged_until = None,
                   !.status = "normal",
                   !.reason = "NONE"]

\* JobBoard.record_attempt: the board after the call (the returned health is
\* its scrape_health).
\* a cap that keeps the oldest attempts: attempts[:50]
cap_attempts_Oldest(attempts) ==
    IF Len(attempts) > AttemptsCap
    THEN SubSeq(attempts, 1, AttemptsCap)
    ELSE attempts

\* if len(self.attempts) > 50: self.attempts = self.attempts[-50:]
cap_attempts(attempts) ==
    IF Len(attempts) > AttemptsCap
    THEN SubSeq(attempts, Len(attempts) - AttemptsCap + 1, Len(attempts))
    ELSE attempts

record_attempt(self, scraped_jobs, ok, scraped_at, error_kind) ==
    LET ts  == scraped_at
        cnt == Len(scraped_jobs)
        app == Append(self.attempts, ScrapeAttempt(ts, ok, cnt, error_kind))
        attempts == cap_attempts(app)
        health == self.scrape_health
        policy == self.policy
        window == policy.time_flag_duration_s
        b1     == [self EXCEPT !.last_scraped = ts, !.attempts = attempts]
        \* manual override
        manual == [health EXCEPT
                     !.status = IF health.status = "down" THEN "down" ELSE "suspect",
                     !.reason = "MANUAL"]
        \* success path
        k         == policy.attempt_window_size
        allsucc   == SelectSeq(Reversed(attempts), LAMBDA a : a.ok /\ a.count > 0)
        succCnt   == [i \in 1..Len(allsucc) |-> allsucc[i].count]
        successes == IF Len(succCnt) > k THEN SubSeq(succCnt, 1, k) ELSE succCnt
        success == [success_reset(health) EXCEPT
                     !.last_nonzero_at = ts,
                     !.last_nonzero_count = cnt,
                     !.last_success_at = ts,
                     !.last_success_count = cnt,
                     !.baseline_nonzero_count =
                         IF successes # <<>> THEN _median(Reversed(successes))
                         ELSE cnt]
        \* empty / failed path
        first_zero_at == IF health.consecutive_zero_attempts = 0 THEN ts
                         ELSE health.first_zero_at
        czero == health.consecutive_zero_attempts + 1
        prior_nonzero_exists ==
            OrZero(health.last_nonzero_count) >= policy.min_baseline_to_flag
        hasPrev == Len(attempts) >= 2
        prev    == attempts[Len(attempts) - 1]
        reason  == IF hasPrev /\ prev.ok /\ prev.count > 0 /\ cnt = 0
                   THEN "ZERO_SPIKE" ELSE "EMPTY_STREAK"
        fu      == ts + window
        flagged_until == IF health.flagged_until = None \/ fu > health.flagged_until
                         THEN fu ELSE health.flagged_until
        within_window == first_zero_at # None /\ ts - first_zero_at <= window
        status  == status_bump(prior_nonzero_exists, within_window, czero,
                               policy.attempt_threshold_for_down)
        empty == [health EXCEPT
                     !.first_zero_at = first_zero_at,
                     !.consecutive_zero_attempts = czero,
                     !.reason = reason,
                     !.flagged_until = flagged_until,
                     !.status = status]
    IN  IF policy.manual_override
        THEN [b1 EXCEPT !.scrape_health = manual]
        ELSE IF cnt > 0 /\ ok
        THEN [b1 EXCEPT !.scrape_health = success, !.last_success_at = ts]
        ELSE [b1 EXCEPT !.scrape_health = empty]

\* The links of a list of jobs, one per job: a list, not the keys of a dict.
DictKeys_List(jobs) == [i \in 1..Len(jobs) |-> jobs[i].link]

\* A Python dict built from a list of jobs, {str(j.link): j for j in jobs}:
\* its keys in insertion order (the first occurrence of each link) ...
DictKeys(jobs) ==
    LET links == [i \in 1..Len(jobs) |-> jobs[i].link]
        first(i) == \A j \in 1..(i - 1) : links[j] # links[i]
        idx == SelectSeq([i \in 1..Len(jobs) |-> i], first)
    IN  [i \in 1..Len(idx) |-> links[idx[i]]]

\* ... and the place in jobs of the value a key maps to (the last occurrence).
DictIndex(jobs, link) ==
    CHOOSE i \in 1..Len(jobs) :
        /\ jobs[i].link = link
        /\ \A j \in (i + 1)..Len(jobs) : jobs[j].link # link

HasKey(jobs, link) == \E i \in 1..Len(jobs) : jobs[i].link = link

\* safe_to_deactivate without the reads of health.status.
safe_to_deactivate_NoHealth(self, ok) ==
    LET attempts == self.attempts
        hasPrev == Len(attempts) >= 2
        prev    == attempts[Len(attempts) - 1]
    IN  IF self.policy.require_two_successful_zeros_to_deactivate
        THEN ok /\ hasPrev /\ prev.ok /\ prev.count = 0
        ELSE TRUE

\* The zero-result gate of apply_scrape, evaluated after record_attempt.
safe_to_deactivate(self, ok) ==
    LET health == self.scrape_health
        attempts == self.attempts
        hasPrev == Len(attempts) >= 2
        prev    == attempts[Len(attempts) - 1]
    IN  IF self.policy.require_two_successful_zeros_to_deactivate
        THEN /\ ok
             /\ hasPrev /\ prev.ok /\ prev.count = 0
             /\ health.status = "normal"
        ELSE health.status = "normal"

\* Whether apply_scrape goes on to the merge with these arguments.
merge_runs(self, scraped_jobs, ok) ==
    Len(scraped_jobs) > 0 \/ safe_to_deactivate(self, ok)

\* sort key of self.content.sort: (0 if active else 1, title.lower())
SortKey(job) ==
    (IF is_active(job) THEN 0 ELSE 1) * (Cardinality(Titles) + 1)
        + StrRank(Lower(job.title))

\* The merge of apply_scrape (after the gate), on the board after record_attempt.
merge(self, scraped_jobs, ts, ok) ==
    LET old   == self.content            \* by_link indexes these objects
        count == Len(scraped_jobs)
        \* activate / upsert scraped jobs
        Upsert(content, link) ==
            LET new_job == scraped_jobs[DictIndex(scraped_jobs, link)]
            IN  IF HasKey(old, link)
                THEN LET i   == DictIndex(old, link)
                         cur == content[i]
                         ren == IF new_job.title # "" /\ new_job.title # cur.title
                                THEN [cur EXCEPT !.title = new_job.title]
                                ELSE cur
                     IN  [content EXCEPT ![i] = mark(ren, "active", ts)]
                ELSE Append(content,
                            [new_job EXCEPT !.history =
                                _normalize_history(<<Status("active", ts)>>)])
        upserted == FoldLeft(Upsert, old, DictKeys(scraped_jobs))
        \* deactivate jobs missing from the scrape
        Deactivate(content, link) ==
            LET i == DictIndex(old, link)
            IN  IF ~HasKey(scraped_jobs, link) /\ is_active(content[i])
                THEN [content EXCEPT ![i] = mark(content[i], "inactive", ts)]
                ELSE content
        merged == FoldLeft(Deactivate, upserted, DictKeys(old))
        b2 == IF count > 0 /\ ok
              THEN [self EXCEPT !.last_success_at = ts,
                                !.scrape_health.last_success_at = ts,
                                !.scrape_health.last_success_count = count]
              ELSE self
    IN  [b2 EXCEPT !.content =
            StableSort(merged, [i \in 1..Len(merged) |-> SortKey(merged[i])])]

\* JobBoard.apply_scrape: the board after the call.
apply_scrape(self, scraped_jobs, scraped_at, ok, error_kind) ==
    LET ts == scraped_at
        b1 == record_attempt(self, scraped_jobs, ok, ts, error_kind)
    IN  IF merge_runs(b1, scraped_jobs, ok)
        THEN merge(b1, scraped_jobs, ts, ok)
        ELSE b1

(***************************************************************************)
(* Spec: one board under any sequence of apply_scrape calls.               *)
(***************************************************************************)
\* per-board policies: (time_flag_duration_s, attempt_threshold_for_down,
\* attempt_window_size, min_baseline_to_flag, require_two..., manual_override)
Policies ==
    { ScrapePolicy(8, 3, 2, 2, TRUE, FALSE),
      ScrapePolicy(1, 2, 1, 1, FALSE, FALSE),
      ScrapePolicy(1, 2, 2, 2, TRUE, FALSE),
      ScrapePolicy(8, 3, 2, 2, TRUE, TRUE) }

\* the scraped postings a scrape can return: a title and a link, no history
\* and the lists of them handed to apply_scrape: empty, one posting, another
\* posting, both, and a link named twice (the second time retitled)
ScrapedJobs ==
    LET a  == Job("Dev", "u1", <<>>)
        a2 == Job("qa", "u1", <<>>)
        b  == Job("Dev", "u2", <<>>)
    IN  {<<>>, <<a>>, <<b>>, <<a, b>>, <<a, a2>>}

NoCall == [op |-> "none", jobs |-> <<>>, ok |-> TRUE, at |-> 0]

\* no function under test
FunIdle ==
    /\ fn = "none" /\ arg = <<>> /\ ret = <<>> /\ posting = <<>> /\ recorded = <<>>
    /\ scr = <<>> /\ browser = "none"

WorkerIdle ==
    /\ disk = <<>> /\ fstate = <<>> /\ heap = <<>> /\ cache = <<>>
    /\ wpc = "off" /\ tickNow = 0 /\ tasks = <<>> /\ sem = 0
    /\ clock = 0 /\ ui = <<>> /\ ext = <<>> /\ seen = <<>>
    /\ FunIdle

Init ==
    /\ jb \in {JobBoard(p) : p \in Policies}
    /\ call = NoCall
    /\ WorkerIdle

\* jb.apply_scrape(scraped_jobs, scraped_at, ok=ok, error_kind=...); the clock
\* that stamps the calls does not run backwards.
ApplyScrape ==
    \E scraped_jobs \in ScrapedJobs, ok \in BOOLEAN, ts \in 0..MaxTime :
        /\ Len(jb.attempts) < MaxCalls
        /\ jb.last_scraped = None \/ ts >= jb.last_scraped
        /\ jb' = apply_scrape(jb, scraped_jobs, ts, ok,
                              IF ok THEN NoError ELSE "network")
        /\ call' = [op |-> "apply_scrape", jobs |-> scraped_jobs,
                    ok |-> ok, at |-> ts]
        /\ UNCHANGED workerVars

Next == ApplyScrape

Spec == Init /\ [][Next]_vars

(***************************************************************************)
(* Properties of apply_scrape (Spec).                                      *)
(***************************************************************************)
LinksOf(jobs) == {jobs[i].link : i \in 1..Len(jobs)}
ActiveLinks(board) ==
    {board.content[i].link : i \in {k \in 1..Len(board.content) : is_active(board.content[k])}}
HistoryTimes(board) ==
    UNION {{board.content[i].history[k].at : k \in 1..Len(board.content[i].history)}
           : i \in 1..Len(board.content)}
Flagged(board) == board.scrape_health.status \in {"suspect", "down"}

\* C1: an apply_scrape call with an empty scraped_jobs list, after whose
\* attempt is recorded the health is suspect or down, leaves content exactly
\* as it was (jobs, order, titles, histories).
C1_FlaggedZeroKeepsContent ==
    [][(/\ call'.op = "apply_scrape"
        /\ call'.jobs = <<>>
        /\ Flagged(jb'))
       => jb'.content = jb.content]_vars

\* C1 witness: an empty scrape was applied, health is suspect or down, and
\* the board still holds an active job that a merge would have deactivated.
C1_Witness ==
    /\ call.op = "apply_scrape"
    /\ call.jobs = <<>>
    /\ Flagged(jb)
    /\ ActiveLinks(jb) # {}

\* C2: with require_two_successful_zeros_to_deactivate and no manual
\* override, a successful zero right after a successful non-zero scrape
\* (health normal) deactivates nothing, and a second consecutive successful
\* zero applied then (health still normal before it) gives every job that
\* was active an inactive event at its timestamp.
C2_SecondZeroDeactivates ==
    [][(/\ jb.policy.require_two_successful_zeros_to_deactivate
        /\ ~jb.policy.manual_override
        /\ call'.op = "apply_scrape" /\ call'.jobs = <<>> /\ call'.ok
        /\ jb.attempts # <<>>
        /\ Last(jb.attempts).ok
        /\ jb.scrape_health.status = "normal")
       => /\ Last(jb.attempts).count > 0 => jb'.content = jb.content
          /\ (/\ Last(jb.attempts).count = 0
              /\ Len(jb.attempts) >= 2
              /\ jb.attempts[Len(jb.attempts) - 1].ok
              /\ jb.attempts[Len(jb.attempts) - 1].count > 0)
             => \A l \in ActiveLinks(jb) :
                   \E i \in 1..Len(jb'.content) :
                       /\ jb'.content[i].link = l
                       /\ Last(jb'.content[i].history) = Status("inactive", call'.at)]_vars

\* C3: after an apply_scrape call that performs the merge, with scraped_at
\* not earlier than any timestamp of the histories, a job of content is
\* active iff its link was scraped, every scraped link is in content, and
\* every job that was active and is missing from the scrape ends with an
\* inactive event at scraped_at.
C3_MergeMakesScrapedSetActive ==
    [][(/\ call'.op = "apply_scrape"
        /\ merge_runs(jb', call'.jobs, call'.ok)
        /\ \A t \in HistoryTimes(jb) : call'.at >= t)
       => /\ \A i \in 1..Len(jb'.content) :
                is_active(jb'.content[i]) <=> jb'.content[i].link \in LinksOf(call'.jobs)
          /\ LinksOf(call'.jobs) \subseteq LinksOf(jb'.content)
          /\ \A l \in ActiveLinks(jb) \ LinksOf(call'.jobs) :
                \E i \in 1..Len(jb'.content) :
                    /\ jb'.content[i].link = l
                    /\ Last(jb'.content[i].history) = Status("inactive", call'.at)]_vars

\* C3 witness: a merge ran that left one job deactivated at scraped_at and
\* brought another, inactive for longer than the flap window, back to active.
C3_Witness ==
    /\ call.op = "apply_scrape"
    /\ merge_runs(jb, call.jobs, call.ok)
    /\ \E i, k \in 1..Len(jb.content) :
          /\ Last(jb.content[i].history) = Status("inactive", call.at)
          /\ jb.content[k].link \in LinksOf(call.jobs)
          /\ Len(jb.content[k].history) = 3
          /\ Last(jb.content[k].history) = Status("active", call.at)

\* C4: an apply_scrape call with ok = false marks no job inactive unless the
\* zero-result gate permits the deactivation (count = 0 and the gate holds).
C4_FailedScrapeDeactivatesNothing ==
    [][(call'.op = "apply_scrape" /\ ~call'.ok)
       => \/ call'.jobs = <<>> /\ safe_to_deactivate(jb', call'.ok)
          \/ ActiveLinks(jb) \subseteq ActiveLinks(jb')]_vars

(***************************************************************************)
(* The pages worker (services/worker/pages_worker.py), the board files     *)
(* (JobBoard.from_file / to_file, load_pages) and the other writers of a   *)
(* board file: the UI's _refresh, which runs in a thread of the worker's   *)
(* process and shares from_file's cache and the objects in it (app.py),    *)
(* and the reset utility, a process of its own (scripts/reset_pages.py).   *)
(***************************************************************************)
MaxClock   == 1     \* the wall clock runs from 0 to MaxClock
MaxRefresh == 1     \* _refresh calls made by the UI

Paths   == {1, 2, 3}                \* the *.json files of pages_dir
PathSeq == <<1, 2, 3>>              \* list_page_files: sorted
ObjIds  == 1..9                     \* addresses of JobBoard objects

\* WorkerConfig(...), with whole time units and room for one scrape at a time
DefaultConfig ==
    [base_frequency |-> 2, jitter |-> 0, min_delay |-> 1, error_backoff |-> 1,
     error_jitter |-> 0, concurrency |-> 1, dry_run |-> FALSE, once |-> FALSE]

\* a WorkerConfig whose error_backoff and min_delay are shorter than a pass
\* of the loop lasts: less than a time unit
QuickRetryConfig == [DefaultConfig EXCEPT !.error_backoff = 0, !.min_delay = 0]

\* cfg, the argument of run_pages_worker(cfg)
WorkerConfig == IF fn = "run_pages_worker" THEN arg[1] ELSE DefaultConfig

\* what scrape_jobs(website_url) can do: return a list of postings or raise
ScrapeOutcomes ==
    {[raised |-> FALSE, jobs |-> <<Job("Dev", "u1", <<>>)>>],
     [raised |-> TRUE,  jobs |-> <<>>]}

\* _rand_seconds(span): random.uniform(-span, span)
Rand(span) == (0 - span)..span
\* random.uniform(0, 30) seconds: less than a time unit
Rand30 == {0}

\* compute_next_scrape_at without the floor
compute_next_scrape_at_NoFloor(last_scraped, now, base, jitter, min_delay, r, r30) ==
    (IF last_scraped # None THEN last_scraped ELSE now) + base + r

\* compute_next_scrape_at, with the two random draws r and r30 made explicit
compute_next_scrape_at(last_scraped, now, base, jitter, min_delay, r, r30) ==
    LET t0        == IF last_scraped # None THEN last_scraped ELSE now
        current   == now
        candidate == t0 + base + r
        floor     == current + min_delay
    IN  IF candidate < floor THEN floor + r30 ELSE candidate

\* _scrape_one on the object jb: [jb, err, num] as returned
_scrape_one(obj, cfg, now, outcome, r, r30) ==
    IF ~outcome.raised
    THEN LET jobs    == outcome.jobs
             applied == apply_scrape(obj, jobs, now, TRUE, NoError)
         IN  [jb |-> [applied EXCEPT !.next_scrape_at =
                         compute_next_scrape_at(applied.last_scraped, now,
                             cfg.base_frequency, cfg.jitter, cfg.min_delay, r, r30)],
              err |-> FALSE, num |-> Len(jobs)]
    ELSE [jb |-> [obj EXCEPT !.next_scrape_at =
                     compute_next_scrape_at(now, now,
                         cfg.error_backoff, cfg.error_jitter, cfg.min_delay, r, r30)],
          err |-> TRUE, num |-> 0]

\* _due_pages over the loaded (path, object) pairs
_due_pages(items, h, now) ==
    SelectSeq(items, LAMBDA it :
        LET nsa == h[it.obj][1].next_scrape_at IN nsa = None \/ nsa <= now)

\* ---- objects and from_file's cache ----
\* a free address for a new object read from path p
Alloc(h, p) ==
    LET cand == {id \in ObjIds : id % 3 = p % 3 /\ h[id] = <<>>}
    IN  CHOOSE id \in cand : \A k \in cand : id <= k

\* a task that gather still waits for
InFlight(t) == t.pc # "done"

\* objects nobody refers to are freed (Python's reference counting)
Collect(h, c, ts) ==
    LET live == {c[p] : p \in Paths} \cup {ts[i].obj : i \in {k \in 1..Len(ts) : InFlight(ts[k])}}
    IN  [id \in ObjIds |-> IF id \in live THEN h[id] ELSE <<>>]

\* JobBoard.from_file(path) in the worker's process: the cached object while
\* the entry is there, else the file is read and parsed (json.loads raises on
\* a file that was opened for writing and not yet written) and the new object is cached.
from_file(h, c, p) ==
    IF c[p] # 0
    THEN [err |-> FALSE, saw |-> "cache", heap |-> h, cache |-> c, obj |-> c[p]]
    ELSE IF fstate[p] # "complete"
    THEN [err |-> TRUE, saw |-> fstate[p], heap |-> h, cache |-> c, obj |-> 0]
    ELSE LET id == Alloc(h, p)
         IN  [err |-> FALSE, saw |-> "complete",
              heap |-> [h EXCEPT ![id] = <<disk[p]>>],
              cache |-> [c EXCEPT ![p] = id], obj |-> id]

RECURSIVE load_pages_from(_, _, _, _)
\* load_pages: from_file on each path in order; a document that fails the
\* schema (pydantic's ValidationError) is skipped, a JSON error is not caught
load_pages_from(ps, h, c, out) ==
    IF ps = <<>>
    THEN [err |-> FALSE, saw |-> "complete", heap |-> h, cache |-> c, pages |-> out]
    ELSE LET r == from_file(h, c, ps[1])
         IN  IF r.err /\ r.saw = "invalid"
             THEN load_pages_from(Tail(ps), r.heap, r.cache, out)
             ELSE IF r.err
             THEN [err |-> TRUE, saw |-> r.saw, heap |-> r.heap, cache |-> r.cache,
                   pages |-> out]
             ELSE load_pages_from(Tail(ps), r.heap, r.cache,
                                  Append(out, [p |-> ps[1], obj |-> r.obj]))

load_pages(h, c) == load_pages_from(PathSeq, h, c, <<>>)

\* ---- the semaphore and the tasks ----
InSem(t)     == t.pc \in {"scraping", "writing"}
\* the tasks blocked in sem.acquire(), first come first
Waiters      == SelectSeq([i \in 1..Len(tasks) |-> i], LAMBDA i : tasks[i].pc = "waiting")

\* leaving `async with sem`: the slot goes to the first waiter, if any
Release(ts, i) ==
    LET done == [ts EXCEPT ![i].pc = "done", ![i].snap = <<>>]
    IN  IF Waiters # <<>>
        THEN [tasks |-> [done EXCEPT ![Waiters[1]].pc = "scraping"], sem |-> sem]
        ELSE [tasks |-> done, sem |-> sem + 1]

\* the writes in progress on a file, other than the caller's own
TaskWrites(p, me) == \E i \in 1..Len(tasks) : i # me /\ tasks[i].pc = "writing" /\ tasks[i].p = p
UiWrites(p)       == ui.pc = "writing" /\ ui.p = p
ExtWrites(p)      == ext.pc = "writing" /\ ext.i = p
\* a file is whole again when its last writer has closed it
Closed(others)    == IF others THEN "truncated" ELSE "complete"

\* gather returning with its first task
AllDone_First == tasks # <<>> /\ tasks[1].pc = "done"

\* gather(*tasks) has returned: every task of the tick is done
AllDone == \A i \in 1..Len(tasks) : tasks[i].pc = "done"

DefaultPolicy == ScrapePolicy(4, 3, 2, 2, TRUE, FALSE)

WorkerInit ==
    /\ FunIdle
    /\ jb = JobBoard(DefaultPolicy)
    /\ call = NoCall
    /\ disk = [p \in Paths |-> JobBoard(DefaultPolicy)]
    /\ fstate = [p \in Paths |-> "complete"]
    /\ heap = [id \in ObjIds |-> <<>>]
    /\ cache = [p \in Paths |-> 0]
    /\ wpc = "tick"
    /\ tickNow = 0
    /\ tasks = <<>>
    /\ sem = WorkerConfig.concurrency
    /\ clock = 0
    /\ ui = [pc |-> "idle", p |-> 0, snap |-> <<>>, n |-> 0]
    /\ ext = [pc |-> "idle", i |-> 1, snap |-> <<>>]
    /\ seen = "complete"

\* write_text runs in the event loop's thread: while a task writes its file
\* nothing else of the worker runs
LoopFree == \A i \in 1..Len(tasks) : tasks[i].pc # "writing"

\* The head of a pass of the while loop of run_pages_worker: load_pages, the
\* first-run marker on the loaded objects, and the due list.
tick_head(h, c, now) ==
    LET ld == load_pages(h, c)
        \* first-time pages run now
        first(o) == IF o.next_scrape_at = None /\ o.last_scraped = None
                    THEN [o EXCEPT !.next_scrape_at =
                             compute_next_scrape_at(None, now, 0, 0, 0, 0, 0)]
                    ELSE o
        loaded == {ld.pages[k].obj : k \in 1..Len(ld.pages)}
        h1 == [id \in ObjIds |-> IF id \in loaded THEN <<first(ld.heap[id][1])>>
                                 ELSE ld.heap[id]]
    IN  IF ld.err
        THEN [err |-> TRUE, saw |-> ld.saw, heap |-> ld.heap, cache |-> ld.cache,
              pages |-> <<>>, due |-> <<>>]
        ELSE [err |-> FALSE, saw |-> ld.saw, heap |-> h1, cache |-> ld.cache,
              pages |-> ld.pages, due |-> _due_pages(ld.pages, h1, now)]

\* One pass of the while loop of run_pages_worker up to the dispatch.
Tick ==
    /\ wpc = "tick"
    /\ LoopFree
    /\ LET cfg == WorkerConfig
           now == clock
           hd  == tick_head(heap, cache, now)
           due == hd.due
           batch == SubSeq(due, 1, IF Len(due) < cfg.concurrency * 2 THEN Len(due)
                                   ELSE cfg.concurrency * 2)
           new == [k \in 1..Len(batch) |->
                      [p |-> batch[k].p, obj |-> batch[k].obj, pc |-> "created",
                       err |-> FALSE, snap |-> <<>>]]
       IN  /\ seen' = hd.saw
           /\ cache' = hd.cache
           /\ tickNow' = now
           /\ IF hd.err
              THEN \* json.JSONDecodeError leaves load_pages and the coroutine
                   /\ wpc' = "crashed"
                   /\ tasks' = tasks
              ELSE /\ tasks' = tasks \o new
                   /\ wpc' = IF hd.pages # <<>> /\ due # <<>> THEN "gather"
                             ELSE IF cfg.once THEN "off" ELSE "tick"
           /\ heap' = Collect(hd.heap, hd.cache, tasks')
    /\ UNCHANGED <<jb, call, funVars, disk, fstate, sem, clock, ui, ext>>

\* a task that does not look at the semaphore
TaskStart_NoSem(i) ==
    /\ tasks[i].pc = "created"
    /\ LoopFree
    /\ \A j \in 1..(i - 1) : tasks[j].pc # "created"
    /\ tasks' = [tasks EXCEPT ![i].pc = "scraping"]
    /\ sem' = sem
    /\ UNCHANGED <<jb, call, funVars, disk, fstate, heap, cache, wpc, tickNow, clock, ui, ext, seen>>

\* A created task runs up to its first suspension: it takes a slot of the
\* semaphore or queues for one.  Tasks start in creation order.
TaskStart(i) ==
    /\ tasks[i].pc = "created"
    /\ LoopFree
    /\ \A j \in 1..(i - 1) : tasks[j].pc # "created"
    /\ IF sem > 0 /\ Waiters = <<>>
       THEN tasks' = [tasks EXCEPT ![i].pc = "scraping"] /\ sem' = sem - 1
       ELSE tasks' = [tasks EXCEPT ![i].pc = "waiting"] /\ sem' = sem
    /\ UNCHANGED <<jb, call, funVars, disk, fstate, heap, cache, wpc, tickNow, clock, ui, ext, seen>>

\* scrape_jobs returns or raises; _scrape_one updates the object; _task
\* serialises it and opens the file for writing (which truncates it).
TaskScrapeDone(i) ==
    /\ tasks[i].pc = "scraping"
    /\ LoopFree
    /\ \E outcome \in ScrapeOutcomes :
       \E r \in Rand(IF outcome.raised THEN WorkerConfig.error_jitter ELSE WorkerConfig.jitter) :
       \E r30 \in Rand30 :
          LET cfg == WorkerConfig
              t   == tasks[i]
              res == _scrape_one(heap[t.obj][1], cfg, tickNow, outcome, r, r30)
              ts1 == [tasks EXCEPT ![i].err = res.err]
          IN  /\ heap' = [heap EXCEPT ![t.obj] = <<res.jb>>]
              /\ IF ~cfg.dry_run
                 THEN /\ tasks' = [ts1 EXCEPT ![i].pc = "writing", ![i].snap = <<res.jb>>]
                      /\ fstate' = [fstate EXCEPT ![t.p] = "truncated"]
                      /\ sem' = sem
                 ELSE /\ tasks' = Release(ts1, i).tasks
                      /\ sem' = Release(ts1, i).sem
                      /\ fstate' = fstate
    /\ UNCHANGED <<jb, call, funVars, disk, cache, wpc, tickNow, clock, ui, ext, seen>>

\* write_text finishes and the file is closed; the task leaves the semaphore.
TaskWriteDone(i) ==
    /\ tasks[i].pc = "writing"
    /\ LET p == tasks[i].p
       IN  /\ disk' = [disk EXCEPT ![p] = tasks[i].snap[1]]
           /\ fstate' = [fstate EXCEPT ![p] = Closed(TaskWrites(p, i) \/ UiWrites(p) \/ ExtWrites(p))]
    /\ tasks' = Release(tasks, i).tasks
    /\ sem' = Release(tasks, i).sem
    /\ heap' = Collect(heap, cache, tasks')
    /\ UNCHANGED <<jb, call, funVars, cache, wpc, tickNow, clock, ui, ext, seen>>

\* await asyncio.gather(*tasks) returns; sleep; next pass.
GatherDone ==
    /\ wpc = "gather"
    /\ LoopFree
    /\ AllDone
    /\ tasks' = SelectSeq(tasks, InFlight)
    /\ wpc' = IF WorkerConfig.once THEN "off" ELSE "tick"
    /\ heap' = Collect(heap, cache, tasks')
    /\ UNCHANGED <<jb, call, funVars, disk, fstate, cache, tickNow, sem, clock, ui, ext, seen>>

\* ui/page_renderer._refresh(slug): from_file, clear the markers, to_file up
\* to the opening of the file.
UiRefresh(p) ==
    /\ ui.pc = "idle"
    /\ ui.n < MaxRefresh
    /\ LET r == from_file(heap, cache, p)
       IN  IF r.err
           THEN /\ seen' = r.saw
                /\ ui' = [ui EXCEPT !.n = ui.n + 1]
                /\ UNCHANGED <<heap, cache, fstate>>
           ELSE LET o == [r.heap[r.obj][1] EXCEPT !.last_scraped = None,
                                                 !.next_scrape_at = None]
                IN  /\ seen' = IF r.saw = "cache" THEN seen ELSE r.saw
                    /\ cache' = r.cache
                    /\ heap' = Collect([r.heap EXCEPT ![r.obj] = <<o>>], r.cache,
                                       tasks)
                    /\ fstate' = [fstate EXCEPT ![p] = "truncated"]
                    /\ ui' = [pc |-> "writing", p |-> p, snap |-> <<o>>, n |-> ui.n + 1]
    /\ UNCHANGED <<jb, call, funVars, disk, wpc, tickNow, tasks, sem, clock, ext>>

UiWriteDone ==
    /\ ui.pc = "writing"
    /\ disk' = [disk EXCEPT ![ui.p] = ui.snap[1]]
    /\ fstate' = [fstate EXCEPT ![ui.p] = Closed(TaskWrites(ui.p, 0) \/ ExtWrites(ui.p))]
    /\ ui' = [ui EXCEPT !.pc = "idle", !.p = 0, !.snap = <<>>]
    /\ UNCHANGED <<jb, call, funVars, heap, cache, wpc, tickNow, tasks, sem, clock, ext, seen>>

\* scripts/reset_pages.reset_pages, one run: for each file in order, from_file
\* (a new process: nothing cached; any exception skips the file), clear
\* content and the markers, to_file up to the opening of the file.
ExtReset ==
    /\ ext.pc = "idle"
    /\ ext.i \in Paths
    /\ IF fstate[ext.i] # "complete"
       THEN /\ seen' = fstate[ext.i]
            /\ ext' = [ext EXCEPT !.i = ext.i + 1]
            /\ fstate' = fstate
       ELSE /\ seen' = "complete"
            /\ ext' = [ext EXCEPT !.pc = "writing",
                                  !.snap = <<[disk[ext.i] EXCEPT !.content = <<>>,
                                                                !.last_scraped = None,
                                                                !.next_scrape_at = None]>>]
            /\ fstate' = [fstate EXCEPT ![ext.i] = "truncated"]
    /\ UNCHANGED <<jb, call, funVars, disk, heap, cache, wpc, tickNow, tasks, sem, clock, ui>>

ExtWriteDone ==
    /\ ext.pc = "writing"
    /\ disk' = [disk EXCEPT ![ext.i] = ext.snap[1]]
    /\ fstate' = [fstate EXCEPT ![ext.i] = Closed(TaskWrites(ext.i, 0) \/ UiWrites(ext.i))]
    /\ ext' = [pc |-> "idle", i |-> ext.i + 1, snap |-> <<>>]
    /\ UNCHANGED <<jb, call, funVars, heap, cache, wpc, tickNow, tasks, sem, clock, ui, seen>>

\* Time passes: a whole unit (every cache entry is older than its 30 s) ...
AdvanceClock ==
    /\ clock < MaxClock
    /\ clock' = clock + 1
    /\ cache' = [p \in Paths |-> 0]
    /\ heap' = Collect(heap, cache', tasks)
    /\ UNCHANGED <<jb, call, funVars, disk, fstate, wpc, tickNow, tasks, sem, ui, ext, seen>>

\* ... or the 30 s of one entry of the ttl_cache.
CacheExpire(p) ==
    /\ cache[p] # 0
    /\ cache' = [cache EXCEPT ![p] = 0]
    /\ heap' = Collect(heap, cache', tasks)
    /\ UNCHANGED <<jb, call, funVars, disk, fstate, wpc, tickNow, tasks, sem, clock, ui, ext, seen>>

\* the worker alone
WorkerNext ==
    \/ Tick
    \/ \E i \in 1..Len(tasks) : TaskStart(i)
    \/ \E i \in 1..Len(tasks) : TaskScrapeDone(i)
    \/ \E i \in 1..Len(tasks) : TaskWriteDone(i)
    \/ GatherDone
    \/ AdvanceClock
    \/ \E p \in Paths : CacheExpire(p)

WorkerSpec == WorkerInit /\ [][WorkerNext]_vars

\* asyncio runs every task that can run, and a scrape returns or raises
FairWorkerSpec ==
    /\ WorkerSpec
    /\ WF_vars(\E i \in 1..Len(tasks) : TaskStart(i))
    /\ WF_vars(\E i \in 1..Len(tasks) : TaskScrapeDone(i))
    /\ WF_vars(\E i \in 1..Len(tasks) : TaskWriteDone(i))

\* the worker and the UI, threads of one process
UiNext ==
    \/ WorkerNext
    \/ \E p \in Paths : UiRefresh(p)
    \/ UiWriteDone

UiSpec == WorkerInit /\ [][UiNext]_vars

\* the worker and a run of the reset utility, two processes
ResetNext ==
    \/ WorkerNext
    \/ ExtReset
    \/ ExtWriteDone

ResetSpec == WorkerInit /\ [][ResetNext]_vars

(***************************************************************************)
(* Properties of the worker and of the board files                         *)
(***************************************************************************)
IsPrefix(a, b) == Len(a) <= Len(b) /\ SubSeq(b, 1, Len(a)) = a

\* the paths of the due list that a pass starting in this state computes
DuePaths ==
    LET hd == tick_head(heap, cache, clock)
    IN  {hd.due[k].p : k \in 1..Len(hd.due)}

\* C5: whenever the scrape of a dispatched board raises, the step of the task
\* that handles the exception appends to the board's attempts a ScrapeAttempt
\* with ok = false, count = 0 and an error_kind, sets last_scraped to the
\* attempt time and takes the empty/failed health transition
\* (consecutive_zero_attempts + 1), together with the back-off next_scrape_at.
C5_ExceptionIsRecordedAsFailedAttempt ==
    [][\A i \in 1..Len(tasks) :
          (tasks[i].pc = "scraping" /\ Len(tasks') = Len(tasks) /\ tasks'[i].err)
          => LET o == heap[tasks[i].obj][1]
                 n == heap'[tasks[i].obj][1]
             IN  /\ Len(n.attempts) = Len(o.attempts) + 1
                 /\ ~Last(n.attempts).ok
                 /\ Last(n.attempts).count = 0
                 /\ Last(n.attempts).error_kind # NoError
                 /\ n.last_scraped = tickNow
                 /\ n.scrape_health.consecutive_zero_attempts =
                        o.scrape_health.consecutive_zero_attempts + 1
                 /\ n.next_scrape_at # None]_vars

\* C6: the read-modify-write of a task and the read-modify-write of _refresh
\* on the same board never interleave, so no write replaces a persisted update
\* from a stale copy: the attempts persisted in a board document are still
\* there, as a prefix, after every later write of that document.
C6_NoPersistedUpdateIsLost ==
    [][\A p \in Paths : IsPrefix(disk[p].attempts, disk'[p].attempts)]_vars

\* C7: once an external writer has rewritten a board document with
\* last_scraped and next_scrape_at null, a pass of the worker that starts
\* afterwards has the board in its due list, whatever from_file has cached.
C7_RewrittenBoardIsDueOnNextTick ==
    (wpc = "tick" /\ LoopFree /\ \A q \in Paths : fstate[q] = "complete")
    => \A p \in Paths :
          (disk[p].last_scraped = None /\ disk[p].next_scrape_at = None)
          => p \in DuePaths

\* C8: a reader of a board file that runs while to_file writes it finds the
\* complete previous document or the complete new one, never an empty or
\* cut file: every read of a board file finds a complete document.
C8_ReadersSeeCompleteDocuments == seen = "complete"

\* C9: no board has two tasks in flight, and a task that finishes leaves its
\* board's next_scrape_at updated (later than the pass that dispatched it)
\* in the document, before any pass can dispatch the board again.
C9_OneTaskPerBoard ==
    /\ [](\A i, k \in 1..Len(tasks) :
             (i # k /\ InFlight(tasks[i]) /\ InFlight(tasks[k]))
             => tasks[i].p # tasks[k].p)
    /\ [][\A i \in 1..Len(tasks) :
             (InFlight(tasks[i]) /\ Len(tasks') = Len(tasks) /\ tasks'[i].pc = "done")
             => /\ wpc' # "tick"
                /\ disk'[tasks[i].p].next_scrape_at # None
                /\ disk'[tasks[i].p].next_scrape_at > tickNow]_vars

\* a board that was scraped and persisted before is in flight again, next to
\* a second task
C9_Witness ==
    /\ Len(tasks) = 2
    /\ \E i \in 1..Len(tasks) :
          /\ tasks[i].pc = "scraping"
          /\ disk[tasks[i].p].next_scrape_at # None
          /\ disk[tasks[i].p].next_scrape_at <= tickNow

\* C10: at every moment at most cfg.concurrency tasks are inside the
\* semaphore (scraping or persisting), at most 2 x concurrency tasks exist,
\* a task waits only while no slot is free, and every waiting task gets to
\* scrape.
C10_ScrapesBoundedByConcurrency ==
    /\ [](/\ Cardinality({i \in 1..Len(tasks) : InSem(tasks[i])}) <= WorkerConfig.concurrency
          /\ sem + Cardinality({i \in 1..Len(tasks) : InSem(tasks[i])}) = WorkerConfig.concurrency
          /\ Len(tasks) <= 2 * WorkerConfig.concurrency
          /\ (Waiters # <<>> => sem = 0))
    /\ \A i \in 1..(2 * DefaultConfig.concurrency) :
          (Len(tasks) >= i /\ tasks[i].pc = "waiting")
          ~> (Len(tasks) >= i /\ tasks[i].pc = "scraping")

\* three boards are due, two tasks exist, one scrapes and the other waits
C10_Witness ==
    /\ Cardinality(DuePaths) = 3
    /\ Len(tasks) = 2
    /\ tasks[1].pc = "scraping"
    /\ tasks[2].pc = "waiting"

(***************************************************************************)
(* Properties of the health state machine                                  *)
(***************************************************************************)
\* an attempt that is not a success: empty or failed
IsZero(a) == ~(a.ok /\ a.count > 0)

RECURSIVE RunLen(_)
\* the length of the run of empty-or-failed attempts that ends attempts
RunLen(attempts) ==
    IF attempts = <<>> \/ ~IsZero(Last(attempts)) THEN 0
    ELSE 1 + RunLen(Front(attempts))

\* C11: with manual_override off, on a board whose last_nonzero_count is at
\* least min_baseline_to_flag, an empty-or-failed attempt that brings the run
\* of such attempts to attempt_threshold_for_down or more, with the latest at
\* most time_flag_duration_s after the first of the run, leaves status down
\* and flagged_until >= its time + time_flag_duration_s; while the run is
\* shorter than the threshold the status is suspect.
C11_ThresholdZerosWithinWindowMeanDown ==
    [][(/\ call' # call
        /\ ~jb.policy.manual_override
        /\ OrZero(jb.scrape_health.last_nonzero_count) >= jb.policy.min_baseline_to_flag
        /\ IsZero(Last(jb'.attempts)))
       => LET att   == jb'.attempts
              run   == RunLen(att)
              first == att[Len(att) - run + 1].at
              last  == Last(att).at
              h     == jb'.scrape_health
              pol   == jb.policy
          IN  /\ (run >= pol.attempt_threshold_for_down
                  /\ last - first <= pol.time_flag_duration_s)
                 => (h.status = "down" /\ h.flagged_until # None
                     /\ h.flagged_until >= last + pol.time_flag_duration_s)
              /\ run < pol.attempt_threshold_for_down => h.status = "suspect"]_vars

\* a run of threshold zeros inside the window after a baseline: down
C11_Witness ==
    /\ ~jb.policy.manual_override
    /\ jb.scrape_health.status = "down"
    /\ RunLen(jb.attempts) = jb.policy.attempt_threshold_for_down
    /\ Len(jb.attempts) > RunLen(jb.attempts)
    /\ jb.scrape_health.flagged_until = Last(jb.attempts).at + jb.policy.time_flag_duration_s

\* the boards and the scrapes of HealthSpec: an empty list and a list of one job
HealthPolicies ==
    {ScrapePolicy(1, 2, 1, 1, FALSE, FALSE), ScrapePolicy(1, 2, 2, 2, TRUE, FALSE)}

HealthJobs == {<<>>, <<Job("Dev", "u1", <<>>)>>}

HealthInit ==
    /\ jb \in {JobBoard(p) : p \in HealthPolicies}
    /\ call = NoCall
    /\ WorkerIdle

\* A caller records an attempt without merging (record_attempt is public).
RecordAttempt ==
    \E scraped_jobs \in HealthJobs, ok \in BOOLEAN, ts \in 0..MaxTime :
        /\ Len(jb.attempts) < MaxCalls
        /\ (jb.last_scraped = None \/ ts >= jb.last_scraped)
        /\ jb' = record_attempt(jb, scraped_jobs, ok, ts,
                                IF ok THEN NoError ELSE "network")
        /\ call' = [op |-> "record_attempt", jobs |-> scraped_jobs, ok |-> ok, at |-> ts]
        /\ UNCHANGED workerVars

\* apply_scrape, as in ApplyScrape, on the lists of HealthSpec
MergeScrape ==
    \E scraped_jobs \in HealthJobs, ok \in BOOLEAN, ts \in 0..MaxTime :
        /\ Len(jb.attempts) < MaxCalls
        /\ (jb.last_scraped = None \/ ts >= jb.last_scraped)
        /\ jb' = apply_scrape(jb, scraped_jobs, ts, ok,
                              IF ok THEN NoError ELSE "network")
        /\ call' = [op |-> "apply_scrape", jobs |-> scraped_jobs, ok |-> ok, at |-> ts]
        /\ UNCHANGED workerVars

\* The operator of a board switches policy.manual_override in its document.
EditPolicy ==
    /\ jb' = [jb EXCEPT !.policy.manual_override = ~jb.policy.manual_override]
    /\ UNCHANGED call
    /\ UNCHANGED workerVars

HealthNext ==
    \/ MergeScrape
    \/ RecordAttempt
    \/ EditPolicy

\* a board under attempts and merges, with its policy edited in between
HealthSpec == HealthInit /\ [][HealthNext]_vars

\* the step is an attempt (recorded alone or inside apply_scrape)
AttemptStep == call'.op \in {"record_attempt", "apply_scrape"} /\ jb'.attempts # jb.attempts

\* C12: after every attempt with ok = true and count > 0, whatever the board
\* and the policy, consecutive_zero_attempts = 0 and flagged_until is null.
C12_SuccessClearsZeroRunAndFlag ==
    [][(AttemptStep /\ call'.ok /\ call'.jobs # <<>>)
       => /\ jb'.scrape_health.consecutive_zero_attempts = 0
          /\ jb'.scrape_health.flagged_until = None]_vars

\* C12 as amended: after every attempt with ok = true and count > 0 on a board
\* whose policy.manual_override is false, consecutive_zero_attempts = 0 and
\* flagged_until is null.
C12_SuccessClearsUnlessManual ==
    [][(AttemptStep /\ call'.ok /\ call'.jobs # <<>> /\ ~jb.policy.manual_override)
       => /\ jb'.scrape_health.consecutive_zero_attempts = 0
          /\ jb'.scrape_health.flagged_until = None]_vars

\* a success right after a counted zero, under automatic health
C12_Witness ==
    /\ call.op \in {"record_attempt", "apply_scrape"}
    /\ call.ok /\ call.jobs # <<>>
    /\ ~jb.policy.manual_override
    /\ Len(jb.attempts) >= 2
    /\ IsZero(jb.attempts[Len(jb.attempts) - 1])
    /\ jb.scrape_health.first_zero_at = None
    /\ jb.scrape_health.last_nonzero_at = call.at
    /\ jb.scrape_health.consecutive_zero_attempts = 0

\* C13: while policy.manual_override is true, every attempt, through
\* record_attempt or apply_scrape, leaves status down if it was down and
\* suspect otherwise, sets reason to MANUAL and changes no other field of
\* scrape_health.
C13_ManualOverrideFreezesHealth ==
    [][(AttemptStep /\ jb.policy.manual_override)
       => LET h == jb.scrape_health
              n == jb'.scrape_health
          IN  /\ n.status = (IF h.status = "down" THEN "down" ELSE "suspect")
              /\ n.reason = "MANUAL"
              /\ n.first_zero_at = h.first_zero_at
              /\ n.consecutive_zero_attempts = h.consecutive_zero_attempts
              /\ n.flagged_until = h.flagged_until
              /\ n.last_nonzero_at = h.last_nonzero_at
              /\ n.last_nonzero_count = h.last_nonzero_count
              /\ n.baseline_nonzero_count = h.baseline_nonzero_count
              /\ n.last_success_at = h.last_success_at
              /\ n.last_success_count = h.last_success_count]_vars

(***************************************************************************)
(* _normalize_history, Job() and Job.mark on their own (NormSpec)          *)
(***************************************************************************)
MaxLen == 3     \* events in a history handed to _normalize_history or Job()

Events    == {Status(st, at) : st \in {"active", "inactive"}, at \in 0..MaxTime}
Histories == UNION {[1..n -> Events] : n \in 0..MaxLen}

BoardIdle == jb = <<>> /\ call = NoCall

NormInit ==
    /\ BoardIdle
    /\ WorkerIdle

\* A run of NormSpec calls _normalize_history once, or builds a Job and
\* marks it.
\* _normalize_history(history) on any list of events
NormalizeCall ==
    \E history \in Histories :
        /\ fn = "none"
        /\ fn' = "_normalize_history"
        /\ arg' = history
        /\ ret' = _normalize_history(history)
        /\ UNCHANGED <<posting, recorded, scr, browser, jb, call, disk, fstate, heap, cache, wpc, tickNow,
                       tasks, sem, clock, ui, ext, seen>>

\* Job(title=..., link=..., history=history): the validator normalises
JobConstruct ==
    \E history \in Histories :
        /\ fn = "none"
        /\ fn' = "Job"
        /\ arg' = <<>>
        /\ ret' = <<>>
        /\ posting' = <<Job("Dev", "u1", history)>>
        /\ UNCHANGED <<recorded, scr, browser>>
        /\ UNCHANGED <<jb, call, disk, fstate, heap, cache, wpc, tickNow,
                       tasks, sem, clock, ui, ext, seen>>

\* job.mark(new_status, at) on the object built before
JobMark ==
    \E new_status \in {"active", "inactive"}, at \in 0..MaxTime :
        /\ posting # <<>>
        /\ Len(posting[1].history) < MaxLen
        /\ fn' = "mark"
        /\ arg' = <<>>
        /\ ret' = <<>>
        /\ posting' = <<mark(posting[1], new_status, at)>>
        /\ UNCHANGED <<recorded, scr, browser>>
        /\ UNCHANGED <<jb, call, disk, fstate, heap, cache, wpc, tickNow,
                       tasks, sem, clock, ui, ext, seen>>

NormNext ==
    \/ NormalizeCall
    \/ JobConstruct
    \/ JobMark

NormSpec == NormInit /\ [][NormNext]_vars

\* a history as _normalize_history promises it
Normalised(h) ==
    /\ \A i \in 1..(Len(h) - 1) : h[i].at <= h[i + 1].at
    /\ \A i \in 1..(Len(h) - 1) : h[i].status # h[i + 1].status
    /\ \A i \in 1..(Len(h) - 1) :
          (h[i].status = "inactive" /\ h[i + 1].status = "active")
          => h[i + 1].at - h[i].at > FlapWindow

\* C14: for every input the output of _normalize_history, and every
\* Job.history after construction and after every mark, is sorted ascending by
\* at, has no two adjacent events of the same status and no inactive event
\* followed by an active event at most 6 hours later.
C14_HistoryIsNormalised ==
    /\ fn = "_normalize_history" => Normalised(ret)
    /\ posting # <<>> => Normalised(posting[1].history)

\* an unsorted input with an active, inactive, active flap comes out as the
\* one first active event
C14_Witness ==
    /\ fn = "_normalize_history"
    /\ Len(arg) = 3
    /\ arg[1].at > arg[2].at
    /\ \E i \in 1..3 : arg[i].status = "inactive"
    /\ Len(ret) = 1
    /\ ret[1].status = "active"

\* C15: _normalize_history returns a list for every list of events (the empty
\* list, lists that start with inactive, lists with equal timestamps), and
\* normalising its result again changes nothing.
C15_NormalizeIsTotalAndIdempotent ==
    fn = "_normalize_history"
    => /\ Len(ret) <= Len(arg)
       /\ \A i \in 1..Len(ret) : ret[i] \in Range(arg)
       /\ _normalize_history(ret) = ret

\* a list that starts with inactive, all at one time, and is changed
C15_Witness ==
    /\ fn = "_normalize_history"
    /\ Len(arg) = 3
    /\ arg[1].status = "inactive"
    /\ arg[1].at = arg[2].at /\ arg[2].at = arg[3].at
    /\ ret # arg
    /\ ret # <<>>

(***************************************************************************)
(* Properties of the merge of apply_scrape (Spec).                         *)
(***************************************************************************)
\* the scraped postings name exactly the active jobs, each under its title
SameAsActive(self, scraped_jobs) ==
    /\ LinksOf(scraped_jobs) = ActiveLinks(self)
    /\ \A i \in 1..Len(scraped_jobs) : \E k \in 1..Len(self.content) :
           /\ self.content[k].link = scraped_jobs[i].link
           /\ self.content[k].title = scraped_jobs[i].title

\* C16: on a board reached from a fresh board by apply_scrape calls, an
\* apply_scrape whose links are exactly the links of the active jobs, with the
\* same titles, leaves content as it was: the same jobs in the same order and
\* every history, of active and of inactive jobs, unchanged.
C16_ScrapeOfActiveSetKeepsContent ==
    [][(jb'.attempts # jb.attempts /\ call'.op = "apply_scrape"
            /\ SameAsActive(jb, call'.jobs))
        => jb'.content = jb.content]_vars

\* a call that named the one job active before it, on a board that also holds
\* a job that was inactive before it
C16_Witness ==
    /\ call.op = "apply_scrape"
    /\ call.jobs # <<>>
    /\ SameAsActive(jb, call.jobs)
    /\ \A k \in 1..Len(jb.content) : Last(jb.content[k].history).at < call.at
    /\ \E k \in 1..Len(jb.content) : ~is_active(jb.content[k])

\* C17: on every board reached from a fresh board by apply_scrape calls no two
\* jobs of content have the same link, also after a scraped list that names
\* one link twice.
C17_LinksArePairwiseDistinct ==
    \A i, k \in 1..Len(jb.content) :
        jb.content[i].link = jb.content[k].link => i = k

\* the last call handed over one link twice and the merge took it in
C17_Witness ==
    /\ call.op = "apply_scrape"
    /\ \E i, k \in 1..Len(call.jobs) :
           i # k /\ call.jobs[i].link = call.jobs[k].link
    /\ \E i \in 1..Len(jb.content) :
           /\ jb.content[i].link \in LinksOf(call.jobs)
           /\ Last(jb.content[i].history).at = call.at
    /\ Len(jb.content) >= 2

(***************************************************************************)
(* CapSpec: one board under more calls than the attempts list keeps.       *)
(* The board is first scraped WarmLen times, one success every time unit;  *)
(* the calls after that are free in their arguments.                       *)
(***************************************************************************)
MaxMore == 3    \* calls made after the warm-up
WarmLen == AttemptsCap - 1

CapInit == HealthInit

\* what a call appends to the list of recorded attempts
Logged(scraped_jobs, ok, ts) ==
    Append(recorded,
           ScrapeAttempt(ts, ok, Len(scraped_jobs), IF ok THEN NoError ELSE "network"))

\* the n-th scrape of the warm-up: jb.record_attempt([job], ok=True, scraped_at=n)
WarmUp ==
    LET scraped_jobs == <<Job("Dev", "u1", <<>>)>>
        ts == Len(recorded)
    IN  /\ Len(recorded) < WarmLen
        /\ jb' = record_attempt(jb, scraped_jobs, TRUE, ts, NoError)
        /\ call' = [op |-> "record_attempt", jobs |-> scraped_jobs,
                    ok |-> TRUE, at |-> ts]
        /\ recorded' = Logged(scraped_jobs, TRUE, ts)
        /\ UNCHANGED <<disk, fstate, heap, cache, wpc, tickNow, tasks, sem,
                       clock, ui, ext, seen, fn, arg, ret, posting, scr, browser>>

\* jb.record_attempt(...) after the warm-up, now or one time unit later
CapRecordAttempt ==
    \E scraped_jobs \in HealthJobs, ok \in BOOLEAN,
       ts \in {jb.last_scraped, jb.last_scraped + 1} :
        /\ Len(recorded) >= WarmLen
        /\ Len(recorded) < WarmLen + MaxMore
        /\ jb' = record_attempt(jb, scraped_jobs, ok, ts,
                                IF ok THEN NoError ELSE "network")
        /\ call' = [op |-> "record_attempt", jobs |-> scraped_jobs,
                    ok |-> ok, at |-> ts]
        /\ recorded' = Logged(scraped_jobs, ok, ts)
        /\ UNCHANGED <<disk, fstate, heap, cache, wpc, tickNow, tasks, sem,
                       clock, ui, ext, seen, fn, arg, ret, posting, scr, browser>>

\* jb.apply_scrape(...) after the warm-up, now or one time unit later
CapApplyScrape ==
    \E scraped_jobs \in HealthJobs, ok \in BOOLEAN,
       ts \in {jb.last_scraped, jb.last_scraped + 1} :
        /\ Len(recorded) >= WarmLen
        /\ Len(recorded) < WarmLen + MaxMore
        /\ jb' = apply_scrape(jb, scraped_jobs, ts, ok,
                              IF ok THEN NoError ELSE "network")
        /\ call' = [op |-> "apply_scrape", jobs |-> scraped_jobs,
                    ok |-> ok, at |-> ts]
        /\ recorded' = Logged(scraped_jobs, ok, ts)
        /\ UNCHANGED <<disk, fstate, heap, cache, wpc, tickNow, tasks, sem,
                       clock, ui, ext, seen, fn, arg, ret, posting, scr, browser>>

CapNext ==
    \/ WarmUp
    \/ CapRecordAttempt
    \/ CapApplyScrape

CapSpec == CapInit /\ [][CapNext]_vars

\* the last n elements of a sequence (all of it when it is shorter)
Newest(seq, n) ==
    IF Len(seq) > n THEN SubSeq(seq, Len(seq) - n + 1, Len(seq)) ELSE seq

\* C18: after any sequence of record_attempt / apply_scrape calls attempts
\* holds at most 50 entries, and they are the (up to) 50 attempts recorded
\* last, in the order they were recorded.
C18_AttemptsAreTheNewestFifty ==
    /\ Len(jb.attempts) <= 50
    /\ jb.attempts = Newest(recorded, 50)

\* more than 50 attempts were recorded, the last of them by apply_scrape
C18_Witness ==
    /\ Len(recorded) >= 52
    /\ call.op = "apply_scrape"
    /\ Len(jb.attempts) = 50
    /\ jb.attempts[1] = recorded[Len(recorded) - 49]

(***************************************************************************)
(* NextAtSpec: the worker, and compute_next_scrape_at called on its own    *)
(* before the first pass of the loop.  The call counts time in units of 15 *)
(* seconds, so that random.uniform(0, 30) draws from 0..HalfMinute.        *)
(***************************************************************************)
MaxSpan == 2        \* base, jitter and min_delay of a call
HalfMinute == 2     \* 30 seconds

ComputeNext ==
    \E last_scraped \in {None} \cup 0..MaxTime, now \in 0..MaxTime,
       base \in 0..MaxSpan, jitter \in 0..MaxSpan, min_delay \in 0..MaxSpan :
    \E r \in Rand(jitter), r30 \in 0..HalfMinute :
        /\ fn = "none"
        /\ wpc = "tick" /\ tasks = <<>>
        /\ \A id \in ObjIds : heap[id] = <<>>
        /\ \A p \in Paths : disk[p].next_scrape_at = None
        /\ fn' = "compute_next_scrape_at"
        /\ arg' = [last_scraped |-> last_scraped, now |-> now, base |-> base,
                   jitter |-> jitter, min_delay |-> min_delay, draw |-> r]
        /\ ret' = <<compute_next_scrape_at(last_scraped, now, base, jitter,
                                           min_delay, r, r30)>>
        /\ UNCHANGED <<jb, call, disk, fstate, heap, cache, wpc, tickNow, tasks,
                       sem, clock, ui, ext, seen, posting, recorded, scr,
                       browser>>

NextAtNext ==
    \/ fn = "none" /\ WorkerNext
    \/ ComputeNext

NextAtSpec == WorkerInit /\ [][NextAtNext]_vars

\* C19: compute_next_scrape_at returns a time >= now + min_delay: the
\* candidate (last_scraped or now) + base + d, d in [-jitter, +jitter], when
\* the candidate is >= now + min_delay, and otherwise a time in
\* [now + min_delay, now + min_delay + 30 s]; hence the board a task
\* persists, after a scrape that returned or raised, has next_scrape_at at
\* least min_delay after the now of the pass.
C19_NextScrapeIsNeverBeforeFloor ==
    /\ [](fn = "compute_next_scrape_at" =>
            LET t0 == IF arg.last_scraped # None THEN arg.last_scraped ELSE arg.now
                candidate == t0 + arg.base + arg.draw
                floor == arg.now + arg.min_delay
            IN  /\ ret[1] >= floor
                /\ arg.draw >= 0 - arg.jitter /\ arg.draw <= arg.jitter
                /\ IF candidate >= floor
                   THEN ret[1] = candidate
                   ELSE ret[1] <= floor + HalfMinute)
    /\ [][\A i \in 1..Len(tasks) :
             (InFlight(tasks[i]) /\ Len(tasks') = Len(tasks) /\ tasks'[i].pc = "done")
             => /\ heap[tasks[i].obj][1].next_scrape_at # None
                /\ heap[tasks[i].obj][1].next_scrape_at
                       >= tickNow + WorkerConfig.min_delay
                /\ disk'[tasks[i].p].next_scrape_at
                       >= tickNow + WorkerConfig.min_delay]_vars

\* a call whose candidate lay before the floor and that returned a time
\* after the floor
C19_Witness ==
    /\ fn = "compute_next_scrape_at"
    /\ arg.last_scraped # None
    /\ arg.last_scraped + arg.base + arg.draw < arg.now + arg.min_delay
    /\ ret[1] > arg.now + arg.min_delay

(***************************************************************************)
(* CancelSpec: the worker, whose coroutine can be cancelled while it       *)
(* awaits gather.  gather passes the cancellation to its tasks, and each   *)
(* task gets asyncio.CancelledError at the await it is suspended in.       *)
(***************************************************************************)
\* run_pages_worker is cancelled in `await asyncio.gather(*tasks)`
CancelGather ==
    /\ wpc = "gather"
    /\ LoopFree
    /\ wpc' = "cancelled"
    /\ UNCHANGED <<jb, call, funVars, disk, fstate, heap, cache, tickNow, tasks,
                   sem, clock, ui, ext, seen>>

\* a cancellation caught by `except Exception` in _scrape_one: the backoff is
\* scheduled and _task persists the board
TaskCancelled_Caught(i) ==
    /\ wpc = "cancelled"
    /\ tasks[i].pc \in {"created", "waiting", "scraping"}
    /\ LET t   == tasks[i]
           res == _scrape_one(heap[t.obj][1], WorkerConfig, tickNow,
                              [raised |-> TRUE, jobs |-> <<>>], 0, 0)
       IN  /\ heap' = [heap EXCEPT ![t.obj] = <<res.jb>>]
           /\ disk' = [disk EXCEPT ![t.p] = res.jb]
           /\ tasks' = [tasks EXCEPT ![i].pc = "cancelled_scrape"]
           /\ sem' = sem
    /\ UNCHANGED <<jb, call, funVars, fstate, cache, wpc, tickNow, clock, ui,
                   ext, seen>>

\* CancelledError reaches task i.  It is not an Exception: in _scrape_one it
\* passes the except clause (pages_worker.py 95), in _task it leaves
\* `async with sem`, which gives the slot back, and to_file is not reached.
\* A task waiting for the semaphore, or not yet started, ends the same way
\* without a slot to give back.
TaskCancelled(i) ==
    /\ wpc = "cancelled"
    /\ tasks[i].pc \in {"created", "waiting", "scraping"}
    /\ tasks' = [tasks EXCEPT ![i].pc =
                    IF tasks[i].pc = "scraping" THEN "cancelled_scrape"
                    ELSE IF tasks[i].pc = "waiting" THEN "cancelled_wait"
                    ELSE "cancelled_new"]
    /\ sem' = IF tasks[i].pc = "scraping" THEN sem + 1 ELSE sem
    /\ UNCHANGED <<jb, call, funVars, disk, fstate, heap, cache, wpc, tickNow,
                   clock, ui, ext, seen>>

CancelNext ==
    \/ wpc # "cancelled" /\ WorkerNext
    \/ CancelGather
    \/ \E i \in 1..Len(tasks) : TaskCancelled(i)

CancelSpec == WorkerInit /\ [][CancelNext]_vars

\* the task has not reached to_file
NotPersisting(t) == t.pc \in {"created", "waiting", "scraping"}
WasCancelled(t) == t.pc \in {"cancelled_scrape", "cancelled_wait", "cancelled_new"}

\* C20: a task cancelled while its scrape is in progress does not persist
\* its board: the pass that creates the task leaves the documents alone, the
\* board's document does not change on any step from the creation of the
\* task to its cancellation nor after it, so that the document after the
\* cancellation is the one from before the pass, without the attempt or the
\* next_scrape_at of the scrape that was cut short.
C20_CancelledTaskPersistsNothing ==
    /\ [][Len(tasks') > Len(tasks) => disk' = disk]_vars
    /\ [][\A i \in 1..Len(tasks) :
             (/\ Len(tasks') = Len(tasks)
              /\ NotPersisting(tasks[i]) \/ WasCancelled(tasks[i])
              /\ NotPersisting(tasks'[i]) \/ WasCancelled(tasks'[i]))
             => /\ disk'[tasks[i].p] = disk[tasks[i].p]
                /\ fstate'[tasks[i].p] = fstate[tasks[i].p]]_vars
    /\ [](\A i \in 1..Len(tasks) :
             WasCancelled(tasks[i]) =>
                /\ fstate[tasks[i].p] = "complete"
                /\ \A k \in 1..Len(disk[tasks[i].p].attempts) :
                       disk[tasks[i].p].attempts[k].at < tickNow
                /\ \/ disk[tasks[i].p].next_scrape_at = None
                   \/ disk[tasks[i].p].next_scrape_at <= tickNow)

\* a board persisted by an earlier pass was due again, and its task was
\* cancelled during the scrape
C20_Witness ==
    \E i \in 1..Len(tasks) :
        /\ tasks[i].pc = "cancelled_scrape"
        /\ disk[tasks[i].p].next_scrape_at # None
        /\ disk[tasks[i].p].next_scrape_at <= tickNow

(***************************************************************************)
(* URLs (services/scrape/url.py).  A URL is what urlparse makes of it: the *)
(* scheme and host (netloc), the path as its segments, and the query as    *)
(* its raw pieces, each a key, a raw (still encoded) value and whether the *)
(* piece has an '=' sign.  Two URLs are the same string iff the records    *)
(* are equal.                                                              *)
(***************************************************************************)
Url(netloc, path, query) == [netloc |-> netloc, path |-> path, query |-> query]
QItem(k, v, eq) == [k |-> k, v |-> v, eq |-> eq]

QueryKeys == {"UTM_Source", "page", "q", "start"}
RawValues == {"", "0", "1", "a+b", "a%20b"}
Segments  == {"jobs", "results", "resultsX"}

\* unquote_plus / unquote on the raw values of the model; quote_plus and quote
unquote(raw)  == IF raw \in {"a+b", "a%20b"} THEN "a b" ELSE raw
quote_plus(v) == IF v = "a b" THEN "a+b" ELSE v
quote(v)      == IF v = "a b" THEN "a%20b" ELSE v

\* str.lower() on the keys of the model, and Python's string order on keys
\* and on decoded values
KeyLower(k) == IF k = "UTM_Source" THEN "utm_source" ELSE k
KeyRank(k)  == CASE k = "UTM_Source" -> 1 [] k = "page" -> 2 [] k = "q" -> 3
                 [] k = "start" -> 4
ValRank(v)  == CASE v = "" -> 0 [] v = "0" -> 1 [] v = "1" -> 2 [] v = "2" -> 3
                 [] v = "3" -> 4 [] v = "a b" -> 5

\* parse_qsl(query, keep_blank_values=True): the decoded (key, value) pairs;
\* a piece without '=' gets the value ''
parse_qsl(query) ==
    [i \in 1..Len(query) |-> <<query[i].k, unquote(query[i].v)>>]

_JOB_IGNORE_PARAMS ==
    {"page", "start", "offset", "ref", "referral", "src", "source", "gh_src",
     "gh_jid", "_gl", "_ga", "_gac", "utm_source", "utm_medium",
     "utm_campaign", "utm_term", "utm_content", "locations", "location",
     "locationHierarchy1", "locationHierarchy2", "locationCity",
     "locationState", "lat", "lng"}

\* the segment begins with "results" (the regex may end inside a segment)
StartsWithResults(seg) == seg \in {"results", "resultsX"}

\* the end (an even index) of the greedy match of (?:/jobs/results)+ on the
\* pairs of segments from index i on; the pair at i is known to match
RECURSIVE RepeatEnd(_, _)
RepeatEnd(path, i) ==
    IF /\ path[i + 1] = "results"
       /\ Len(path) >= i + 3
       /\ path[i + 2] = "jobs"
       /\ StartsWithResults(path[i + 3])
    THEN RepeatEnd(path, i + 2)
    ELSE i + 1

\* a collapse that folds one repetition per match
RECURSIVE collapse_Once(_)
collapse_Once(path) ==
    IF Len(path) < 4 THEN path
    ELSE IF /\ path[1] = "jobs" /\ path[2] = "results"
            /\ path[3] = "jobs" /\ StartsWithResults(path[4])
         THEN <<"jobs", path[4]>> \o collapse_Once(SubSeq(path, 5, Len(path)))
         ELSE <<path[1]>> \o collapse_Once(Tail(path))

\* re.sub(r"/(jobs/results)(?:/\1)+", r"/\1", path): every leftmost greedy
\* match, left to right, is replaced by one /jobs/results
RECURSIVE collapse(_)
collapse(path) ==
    IF Len(path) < 4 THEN path
    ELSE IF /\ path[1] = "jobs" /\ path[2] = "results"
            /\ path[3] = "jobs" /\ StartsWithResults(path[4])
         THEN LET e == RepeatEnd(path, 3)
              IN  <<"jobs", path[e]>> \o collapse(SubSeq(path, e + 1, Len(path)))
         ELSE <<path[1]>> \o collapse(Tail(path))

\* urlencode(pairs, doseq=True) with quote_plus or quote
urlencode(pairs, plus) ==
    [i \in 1..Len(pairs) |->
        QItem(pairs[i][1],
              IF plus THEN quote_plus(pairs[i][2]) ELSE quote(pairs[i][2]), TRUE)]

canonical_job_url(url) ==
    LET path == collapse(url.path)
        q    == SelectSeq(parse_qsl(url.query),
                          LAMBDA kv : KeyLower(kv[1]) \notin _JOB_IGNORE_PARAMS)
        srt  == StableSort(q, [i \in 1..Len(q) |->
                                  KeyRank(q[i][1]) * 6 + ValRank(q[i][2])])
    IN  Url(url.netloc, path, urlencode(srt, TRUE))

_PAGE_ONE_KEYS == {"page", "pg", "p", "pageNumber"}
_ZERO_OFFSET_KEYS == {"start", "offset", "from", "startrow"}

normalize_page_identity(url) ==
    LET pairs == parse_qsl(url.query)
        \* q[k][-1]: the last value given for the key
        last(k) == LET at == {i \in 1..Len(pairs) : pairs[i][1] = k}
                   IN  pairs[CHOOSE i \in at : \A j \in at : j <= i][2]
        dropped(k) == \/ k \in _PAGE_ONE_KEYS /\ last(k) = "1"
                      \/ k \in _ZERO_OFFSET_KEYS /\ last(k) = "0"
        q   == SelectSeq(pairs, LAMBDA kv : ~dropped(kv[1]))
        \* for k in sorted(q), the values of k in their order
        srt == StableSort(q, [i \in 1..Len(q) |-> KeyRank(q[i][1])])
    IN  Url(url.netloc, url.path, urlencode(srt, FALSE))

(***************************************************************************)
(* ScrapeSpec: calls of scrape_jobs_with_meta (services/scrape/__init__.py)*)
(* one after the other in one process, sharing the headless browser of     *)
(* render_client.py.  What the site, the adapters and the browser answer   *)
(* is drawn at each step.                                                  *)
(***************************************************************************)
MaxPages == 3       \* the max_pages argument of a call

\* listing URLs of the board's host (the first page under two spellings, a
\* second and a third page) and one of another host
ListingUrls ==
    { Url("https://a.com", <<"jobs">>, <<>>),
      Url("https://a.com", <<"jobs">>, <<QItem("page", "1", TRUE)>>),
      Url("https://a.com", <<"jobs">>, <<QItem("page", "2", TRUE)>>),
      Url("https://a.com", <<"jobs">>, <<QItem("page", "3", TRUE)>>) }
OtherHostUrl == Url("https://b.com", <<"jobs">>, <<>>)

\* a link urlparse raises ValueError on
BadUrl == Url("http://[bad", <<>>, <<>>)

\* the lists a page's extraction (or an adapter) can return: no job, one
\* job, the same job under a tracking parameter next to a second job, and a
\* job whose link does not parse
FoundJobs ==
    LET d1  == Url("https://a.com", <<"jobs", "results", "1">>, <<>>)
        d1t == Url("https://a.com", <<"jobs", "results", "1">>,
                   <<QItem("UTM_Source", "1", TRUE)>>)
        d2  == Url("https://a.com", <<"jobs", "results", "2">>, <<>>)
    IN  { <<>>,
          <<Job("Dev", d1, <<>>)>>,
          <<Job("Dev", d1t, <<>>), Job("qa", d2, <<>>)>>,
          <<Job("qa", BadUrl, <<>>)>> }

\* what extract_all or an adapter's scrape does: it raises or returns jobs
FoundOutcomes ==
    {[raised |-> TRUE, jobs |-> <<>>]} \cup
    {[raised |-> FALSE, jobs |-> js] : js \in FoundJobs}

\* what discover_next_page_url does: it raises, returns None, or a URL
NextOutcomes ==
    {[kind |-> k, url |-> OtherHostUrl] : k \in {"raise", "none"}} \cup
    {[kind |-> "url", url |-> u] : u \in ListingUrls \cup {OtherHostUrl}}

\* ScrapeMeta(renderer_used=False, attempted_pages=0, rendered_pages=0)
ScrapeMeta ==
    [renderer_used |-> FALSE, attempted_pages |-> 0, rendered_pages |-> 0,
     ats_adapter |-> "None"]

\* the adapters: name and declared renders
LeverAdapter       == [name |-> "lever", renders |-> FALSE]
MetaCareersAdapter == [name |-> "meta", renders |-> TRUE]
MicrosoftAdapter   == [name |-> "microsoft", renders |-> TRUE]
ProtonAdapter      == [name |-> "proton", renders |-> TRUE]
WorkdayAdapter     == [name |-> "workday-generic", renders |-> TRUE]
JoinAdapter        == [name |-> "join.com", renders |-> TRUE]
GreenhouseAdapter  == [name |-> "greenhouse", renders |-> TRUE]
AshbyAdapter       == [name |-> "ashbyhq", renders |-> TRUE]

_ADAPTERS ==
    << LeverAdapter, MetaCareersAdapter, MicrosoftAdapter, ProtonAdapter,
       WorkdayAdapter, JoinAdapter, GreenhouseAdapter, AshbyAdapter >>

\* the adapters one URL can match: none, one, or two at once
MatchSets == {m \in SUBSET (1..Len(_ADAPTERS)) : Cardinality(m) <= 2}

\* _first_matching_adapter that returns the last adapter that matches
_first_matching_adapter_Last(matching) ==
    IF matching = {} THEN 0
    ELSE CHOOSE i \in matching : \A k \in matching : k <= i

\* _first_matching_adapter(url), where matching is the set of places in the
\* registry whose adapter.matches(url) is true: the place found, 0 for None
_first_matching_adapter(matching) ==
    IF matching = {} THEN 0
    ELSE CHOOSE i \in matching : \A k \in matching : i <= k

\* jobs keyed by canonical link, first one wins (a dict in insertion order,
\* or the seen set and out list of scrape_via_ats_if_supported); in the
\* generic loop a link that does not parse is skipped
Collect_jobs(collected, page_jobs) ==
    LET Add(acc, j) ==
            IF j.link = BadUrl
            THEN acc
            ELSE LET key == canonical_job_url(j.link)
                 IN  IF \E i \in 1..Len(acc) : acc[i].link = key
                     THEN acc
                     ELSE Append(acc, Job(j.title, key, <<>>))
    IN  FoldLeft(Add, collected, page_jobs)

\* no call is running
ScrapeIdle == scr = <<>>

\* the call has come back: it returned (jobs, meta) or raised
ScrapeOver == scr # <<>> /\ scr.pc \in {"returned", "raised"}

\* return list(collected.values()), meta
Returned(s) == [s EXCEPT !.pc = "returned", !.out = s.collected]

\* an exception leaves scrape_jobs_with_meta (finally: pass): the caller
\* gets neither jobs nor meta
Raised(s) == [s EXCEPT !.pc = "raised", !.out = <<>>]

\* scrape_jobs_with_meta(website_url, max_pages=...) up to the for loop: the
\* ATS fast path, with what the matching adapter's scrape does
ScrapeStart ==
    \E website_url \in ListingUrls, matching \in MatchSets,
       ats \in FoundOutcomes :
        /\ ScrapeIdle
        /\ LET s0 == [pc |-> "loop", website_url |-> website_url,
                      url |-> website_url, visited |-> {}, collected |-> <<>>,
                      meta |-> ScrapeMeta, i |-> 0, fetched |-> <<>>,
                      render_calls |-> 0,
                      adapter |-> _first_matching_adapter(matching),
                      matching |-> matching, out |-> <<>>]
           IN  scr' =
                 IF s0.adapter = 0
                 THEN s0
                 ELSE IF ats.raised \/ \E k \in 1..Len(ats.jobs) : ats.jobs[k].link = BadUrl
                 THEN Raised(s0)
                 ELSE [s0 EXCEPT
                         !.pc = "returned",
                         !.out = Collect_jobs(<<>>, ats.jobs),
                         !.meta.renderer_used = _ADAPTERS[s0.adapter].renders,
                         !.meta.ats_adapter = _ADAPTERS[s0.adapter].name]
        /\ UNCHANGED <<jb, call, disk, fstate, heap, cache, wpc, tickNow, tasks,
                       sem, clock, ui, ext, seen, fn, arg, ret, posting,
                       recorded, browser>>

\* _ensure_browser: launches only when _browser is None, and returns _browser
_ensure_browser(b) == IF b = "none" THEN "connected" ELSE b

\* an iteration that fetches without looking at visited
page_seen_Never(visited, url) == FALSE

\* if url in visited
page_seen(visited, url) == url \in visited

\* One iteration of the for loop, lines 59-107.  fetch: http.fetch_text raises,
\* or returns a page that is or is not a JS shell; render: fetch_rendered_html
\* (on a browser that is connected) returns or raises; found: extract_all
\* raises or returns jobs; next: discover_next_page_url raises, finds nothing,
\* or returns a URL.
ScrapePage ==
    \E fetch \in {"raise", "html", "js_shell"}, render \in {"raise", "html"},
       found \in FoundOutcomes, next \in NextOutcomes :
        /\ scr # <<>> /\ scr.pc = "loop"
        /\ LET s1  == [scr EXCEPT !.i = scr.i + 1,
                                  !.meta.attempted_pages = scr.meta.attempted_pages + 1]
               url == normalize_page_identity(scr.url)
               s2  == [s1 EXCEPT !.url = url, !.visited = s1.visited \cup {url},
                                 !.fetched = Append(s1.fetched, url),
                                 \* calls of fetch_rendered_html made so far
                                 !.render_calls =
                                     IF fetch = "js_shell" THEN s1.render_calls + 1
                                     ELSE s1.render_calls]
               b1  == _ensure_browser(browser)
               rendered_ok == b1 = "connected" /\ render = "html"
               s3  == IF fetch = "js_shell"
                      THEN [s2 EXCEPT !.meta.rendered_pages = s2.meta.rendered_pages + 1,
                                      !.meta.renderer_used = TRUE]
                      ELSE s2
               s4  == [s3 EXCEPT !.collected = Collect_jobs(s3.collected, found.jobs)]
               \* the for loop goes on with next_url, or is exhausted
               s5  == IF s4.i < MaxPages
                      THEN [s4 EXCEPT !.url = next.url]
                      ELSE Returned([s4 EXCEPT !.url = next.url])
           IN  IF page_seen(scr.visited, url)
               THEN scr' = Returned([s1 EXCEPT !.url = url]) /\ browser' = browser
               ELSE IF fetch = "raise"
               THEN scr' = Returned(s2) /\ browser' = browser
               ELSE IF fetch = "js_shell" /\ ~rendered_ok
               THEN scr' = Raised(s2) /\ browser' = b1
               ELSE /\ browser' = IF fetch = "js_shell" THEN b1 ELSE browser
                    /\ IF found.raised
                       THEN scr' = Raised(s3)
                       ELSE IF next.kind \in {"raise", "none"}
                       THEN scr' = Returned(s4)
                       ELSE IF next.url.netloc # scr.website_url.netloc
                       THEN scr' = Returned(s4)
                       ELSE scr' = s5
        /\ UNCHANGED <<jb, call, disk, fstate, heap, cache, wpc, tickNow, tasks,
                       sem, clock, ui, ext, seen, fn, arg, ret, posting, recorded>>

\* the caller has taken the result; the next call can start
ScrapeEnd ==
    /\ ScrapeOver
    /\ scr' = <<>>
    /\ UNCHANGED <<jb, call, disk, fstate, heap, cache, wpc, tickNow, tasks,
                   sem, clock, ui, ext, seen, fn, arg, ret, posting, recorded,
                   browser>>

\* the browser process dies or loses its connection
BrowserCrash ==
    /\ browser = "connected"
    /\ browser' = "disconnected"
    /\ UNCHANGED <<jb, call, disk, fstate, heap, cache, wpc, tickNow, tasks,
                   sem, clock, ui, ext, seen, fn, arg, ret, posting, recorded,
                   scr>>

ScrapeInit == BoardIdle /\ WorkerIdle

ScrapeNext ==
    \/ ScrapeStart
    \/ ScrapePage
    \/ ScrapeEnd
    \/ BrowserCrash

ScrapeSpec == ScrapeInit /\ [][ScrapeNext]_vars

\* C21: when a step of the generic loop raises on page k, the loop ends and
\* scrape_jobs_with_meta still returns the jobs collected on the pages
\* before k: a call that has collected jobs never ends without returning
\* them.
C21_RaiseMidLoopKeepsCollectedJobs ==
    [][(scr # <<>> /\ scr.pc = "loop" /\ scr.collected # <<>> /\ scr' # scr)
        => \/ scr'.pc = "loop"
           \/ scr'.pc = "returned" /\ IsPrefix(scr.collected, scr'.out)]_vars

(***************************************************************************)
(* LoadSpec: the worker over a directory in which a document may be bad    *)
(* from the start: "truncated" is a file json.loads cannot decode,         *)
(* "invalid" a JSON document that fails the schema of JobBoard.            *)
(***************************************************************************)
LoadInit ==
    /\ FunIdle
    /\ jb = JobBoard(DefaultPolicy)
    /\ call = NoCall
    /\ disk = [p \in Paths |-> JobBoard(DefaultPolicy)]
    /\ fstate \in [Paths -> {"complete", "truncated", "invalid"}]
    /\ heap = [id \in ObjIds |-> <<>>]
    /\ cache = [p \in Paths |-> 0]
    /\ wpc = "tick"
    /\ tickNow = 0
    /\ tasks = <<>>
    /\ sem = WorkerConfig.concurrency
    /\ clock = 0
    /\ ui = [pc |-> "idle", p |-> 0, snap |-> <<>>, n |-> 0]
    /\ ext = [pc |-> "idle", i |-> 1, snap |-> <<>>]
    /\ seen = "complete"

LoadSpec == LoadInit /\ [][WorkerNext]_vars

\* C22: load_pages skips every document that cannot be decoded or fails the
\* schema and returns every valid board: a pass of the loop over a directory
\* with a bad document does not end the loop, loads every good document and
\* no bad one, and no task, attempt or schedule is made for a bad document.
C22_BadDocumentsAreSkipped ==
    [][Tick =>
        /\ wpc' # "crashed"
        /\ \A p \in Paths :
              /\ fstate[p] = "complete" => cache'[p] # 0
              /\ fstate[p] \in {"truncated", "invalid"} =>
                    /\ cache'[p] = 0
                    /\ disk'[p].attempts = <<>>
                    /\ \A i \in 1..Len(tasks') : tasks'[i].p # p]_vars

(***************************************************************************)
(* UrlSpec: a run calls canonical_job_url or normalize_page_identity on    *)
(* one URL and then once more on what the call returned.                   *)
(***************************************************************************)
MaxPath  == 6       \* segments of a URL's path
MaxQuery == 2       \* pieces of a URL's query

PathsIn == UNION {[1..n -> Segments] : n \in 0..MaxPath}

\* the pieces k=v, and k alone (no '=')
QueryItems ==
    {QItem(k, v, TRUE) : k \in QueryKeys, v \in RawValues} \cup
    {QItem(k, "", FALSE) : k \in QueryKeys}
QueriesIn == UNION {[1..n -> QueryItems] : n \in 0..MaxQuery}

UrlsIn ==
    {Url("https://a.com", p, <<>>) : p \in PathsIn} \cup
    {Url("https://a.com", <<"jobs", "results", "jobs", "results", "1">>, q) :
        q \in QueriesIn}

UrlFunction(name, url) ==
    IF name = "canonical_job_url" THEN canonical_job_url(url)
    ELSE normalize_page_identity(url)

\* f(u) for one of the two functions; arg keeps the URLs handed in
UrlCall ==
    \E name \in {"canonical_job_url", "normalize_page_identity"}, u \in UrlsIn :
        /\ fn = "none"
        /\ fn' = name
        /\ arg' = <<u>>
        /\ ret' = <<UrlFunction(name, u)>>
        /\ UNCHANGED <<posting, recorded, scr, browser, jb, call, disk, fstate,
                       heap, cache, wpc, tickNow, tasks, sem, clock, ui, ext,
                       seen>>

\* f(f(u)): the same function on the URL it returned
UrlCallAgain ==
    /\ fn \in {"canonical_job_url", "normalize_page_identity"}
    /\ Len(arg) = 1
    /\ arg' = Append(arg, ret[1])
    /\ ret' = <<UrlFunction(fn, ret[1])>>
    /\ UNCHANGED <<fn, posting, recorded, scr, browser, jb, call, disk, fstate,
                   heap, cache, wpc, tickNow, tasks, sem, clock, ui, ext, seen>>

UrlNext ==
    \/ UrlCall
    \/ UrlCallAgain

UrlSpec == NormInit /\ [][UrlNext]_vars

\* C23: both URL normalisers are idempotent: calling the function on the URL
\* it returned gives that URL back, also for repeated /jobs/results/
\* segments, repeated or blank-valued parameters and dropped parameters.
C23_NormalisersAreIdempotent ==
    (fn \in {"canonical_job_url", "normalize_page_identity"} /\ Len(arg) = 2)
        => ret[1] = arg[2]

\* the second call of canonical_job_url on a URL whose first call collapsed
\* repeated segments, dropped a volatile parameter and kept a blank one
C23_Witness ==
    /\ fn = "canonical_job_url"
    /\ Len(arg) = 2
    /\ arg[1].path # arg[2].path
    /\ \E i \in 1..Len(arg[1].query) :
          KeyLower(arg[1].query[i].k) \in _JOB_IGNORE_PARAMS
    /\ \E i \in 1..Len(arg[2].query) : arg[2].query[i].v = ""
    /\ Len(arg[2].query) < Len(arg[1].query)

StarveInit ==
    /\ jb = JobBoard(DefaultPolicy)
    /\ call = NoCall
    /\ fn = "run_pages_worker"
    /\ arg = <<QuickRetryConfig>>
    /\ ret = <<>> /\ posting = <<>> /\ recorded = <<>>
    /\ scr = <<>> /\ browser = "none"
    /\ disk = [p \in Paths |-> JobBoard(DefaultPolicy)]
    /\ fstate = [p \in Paths |-> "complete"]
    /\ heap = [id \in ObjIds |-> <<>>]
    /\ cache = [p \in Paths |-> 0]
    /\ wpc = "tick"
    /\ tickNow = 0
    /\ tasks = <<>>
    /\ sem = QuickRetryConfig.concurrency
    /\ clock = 0
    /\ ui = [pc |-> "idle", p |-> 0, snap |-> <<>>, n |-> 0]
    /\ ext = [pc |-> "idle", i |-> 1, snap |-> <<>>]
    /\ seen = "complete"

\* the worker; time passes in whole units
StarveNext ==
    \/ Tick
    \/ \E i \in 1..Len(tasks) : TaskStart(i)
    \/ \E i \in 1..Len(tasks) : TaskScrapeDone(i)
    \/ \E i \in 1..Len(tasks) : TaskWriteDone(i)
    \/ GatherDone
    \/ AdvanceClock

StarveSpec ==
    /\ StarveInit /\ [][StarveNext]_vars
    \* the loop keeps ticking: WF_vars(Tick), with ENABLED written out as
    \* the guard of Tick
    /\ ([]<>(~(wpc = "tick" /\ LoopFree)) \/ []<><<Tick>>_vars)
    /\ WF_vars(GatherDone)
    /\ WF_vars(\E i \in 1..Len(tasks) : TaskStart(i))
    /\ WF_vars(\E i \in 1..Len(tasks) : TaskScrapeDone(i))
    /\ WF_vars(\E i \in 1..Len(tasks) : TaskWriteDone(i))

\* C25: every board that is due at a tick is eventually dispatched (a task
\* is created for it) and scraped (its attempt time is set), whatever its
\* place in the path-sorted due list.
C25_DueBoardIsEventuallyScraped ==
    \A p \in Paths :
        (wpc = "tick" /\ p \in DuePaths)
            ~> (\E i \in 1..Len(tasks) : tasks[i].p = p /\ tasks[i].pc = "scraping")

NoDuplicates(seq) == \A a, b \in 1..Len(seq) : a # b => seq[a] # seq[b]

\* C27: the generic loop makes at most max_pages iterations and fetches no
\* normalised listing URL twice in a session, whatever the pagination
\* discoverer returns; attempted_pages <= max_pages and
\* rendered_pages <= attempted_pages.
C27_LoopIsBoundedAndFetchesOnce ==
    scr # <<>> =>
        /\ scr.i <= MaxPages
        /\ scr.pc = "loop" => scr.i < MaxPages
        /\ NoDuplicates(scr.fetched)
        /\ Len(scr.fetched) <= scr.i
        /\ scr.meta.attempted_pages = scr.i
        /\ scr.meta.attempted_pages <= MaxPages
        /\ scr.meta.rendered_pages <= scr.meta.attempted_pages

\* the discoverer led back to a page of the session (under another spelling
\* or not): the iteration after it fetched nothing and the call returned
C27_Witness ==
    /\ scr # <<>>
    /\ scr.pc = "returned"
    /\ scr.i >= 2
    /\ Len(scr.fetched) = scr.i - 1
    /\ scr.url \in scr.visited
    /\ scr.meta.attempted_pages = scr.i

\* C30: when the shared browser is disconnected, the next call of
\* fetch_rendered_html replaces it with a newly launched one.
C30_DisconnectedBrowserIsReplaced ==
    [][(/\ scr # <<>> /\ scr' # <<>>
        /\ scr'.render_calls > scr.render_calls
        /\ browser = "disconnected")
           => browser' = "connected"]_vars

(***************************************************************************)
(* The health state machine under a constant policy without manual         *)
(* override (Spec).                                                        *)
(***************************************************************************)
\* C28: with manual_override = false, a status that is suspect or down stays
\* suspect or down under every empty or failed attempt; it goes back to
\* normal only by an attempt with ok and count > 0.
C28_FlaggedStatusLeavesOnlyBySuccess ==
    [][(/\ ~jb.policy.manual_override
        /\ jb.scrape_health.status \in {"suspect", "down"}
        /\ jb'.attempts # jb.attempts)
           => IF IsZero(Last(jb'.attempts))
              THEN jb'.scrape_health.status \in {"suspect", "down"}
              ELSE jb'.scrape_health.status = "normal"]_vars

\* a board whose status went from suspect to down on a further zero
C28_Witness ==
    /\ ~jb.policy.manual_override
    /\ Len(jb.attempts) = 3
    /\ jb.scrape_health.status = "down"
    /\ jb.scrape_health.consecutive_zero_attempts = 2
    /\ IsZero(jb.attempts[2]) /\ IsZero(jb.attempts[3])

\* C29: with manual_override = false, in every state reached from a fresh
\* board consecutive_zero_attempts = 0, first_zero_at null, flagged_until
\* null and reason NONE hold together or not at all, and when they hold the
\* status is normal.
C29_ZeroRunBookkeepingIsConsistent ==
    ~jb.policy.manual_override =>
        LET h == jb.scrape_health
            z == h.consecutive_zero_attempts = 0
        IN  /\ z <=> (h.first_zero_at = None)
            /\ z <=> (h.flagged_until = None)
            /\ z <=> (h.reason = "NONE")
            /\ z => h.status = "normal"

\* a zero run ended by a success: the four fields are cleared together
C29_Witness ==
    /\ ~jb.policy.manual_override
    /\ Len(jb.attempts) >= 2
    /\ IsZero(jb.attempts[Len(jb.attempts) - 1])
    /\ ~IsZero(Last(jb.attempts))
    /\ jb.scrape_health.consecutive_zero_attempts = 0
    /\ jb.scrape_health.flagged_until = None

=============================================================================
